---- MODULE Spec2Model ----
(***************************************************************************)
(* Model of ghfilter: Condition.Matches and Filter.Matches evaluated on a  *)
(* github.Event.                                                           *)
(*                                                                         *)
(* Go strings are sequences of one-character strings, so that ToLower and  *)
(* the regexp search are computed character by character.  A Go pointer    *)
(* field (of the Event: Type, Public, RawPayload, Org, Repo) is optional:   *)
(* <<>> for nil, <<v>> for a pointer to v.  A raw payload is the JSON      *)
(* document its bytes parse to, or Malformed when they do not parse.       *)
(***************************************************************************)
EXTENDS Integers, Sequences, FiniteSets, TLC

VARIABLES c, f, event, cret, fret, call, payloads, sret

vars == <<c, f, event, cret, fret, call, payloads, sret>>

(***************************************************************************)
(* Bounds of the model.                                                    *)
(***************************************************************************)
MaxSubChecks == 2

MaxLabels == 2

MaxConds == 2

MaxCallers == 2

(***************************************************************************)
(* Optionals and strings.                                                  *)
(***************************************************************************)
None == <<>>

Some(v) == <<v>>

Empty == <<>>

Sx == <<"x">>

SX == <<"X">>

Sy == <<"y">>

Syx == <<"y", "x">>

\* strings.ToLower on one character of the model's alphabet.
LowerChar(ch) ==
    CASE ch = "X" -> "x"
      [] ch = "Y" -> "y"
      [] ch = "I" -> "i"
      [] OTHER -> ch

\* A plausible slip: the comparison forgets to fold case.
ToLowerIdentity(s) == s

\* strings.ToLower
ToLower(s) == [i \in 1..Len(s) |-> LowerChar(s[i])]

(***************************************************************************)
(* JSON documents.                                                         *)
(***************************************************************************)
Malformed == [k |-> "malformed"]

JNull == [k |-> "null"]

JNum == [k |-> "number"]

JStr(s) == [k |-> "string", s |-> s]

JArr(a) == [k |-> "array", a |-> a]

JObj(m) == [k |-> "object", m |-> m]

\* encoding/json matches an object key to a struct field exactly or, failing
\* that, ignoring case; the keys of the model are folded by this table.
FoldKey(key) == IF key = "Title" THEN "title" ELSE key

\* The value of object obj under the key that decodes into field name, if any.
Field(obj, name) ==
    LET K == {key \in DOMAIN obj.m : FoldKey(key) = name}
    IN  IF K = {} THEN None ELSE Some(obj.m[CHOOSE key \in K : TRUE])

\* Decoding down the nested structs of a payload struct: a missing key or a
\* null leaves the zero value, an object is descended into, anything else is
\* an UnmarshalTypeError.
RECURSIVE Walk(_, _)
Walk(v, path) ==
    IF path = <<>> THEN [err |-> FALSE, leaf |-> v]
    ELSE IF v = None \/ v[1].k = "null" THEN [err |-> FALSE, leaf |-> None]
    ELSE IF v[1].k = "object" THEN Walk(Field(v[1], Head(path)), Tail(path))
    ELSE [err |-> TRUE, leaf |-> None]

\* json.Unmarshal(*event.RawPayload, &payload) down to the one leaf the
\* payload struct declares.
Unmarshal(raw, path) ==
    IF raw.k = "malformed" THEN [err |-> TRUE, leaf |-> None]
    ELSE Walk(Some(raw), path)

\* Decoding a leaf into a Go string field.
DecString(leaf) ==
    IF leaf = None \/ leaf[1].k = "null" THEN [err |-> FALSE, val |-> Empty]
    ELSE IF leaf[1].k = "string" THEN [err |-> FALSE, val |-> leaf[1].s]
    ELSE [err |-> TRUE, val |-> Empty]

\* Decoding a leaf into a Go []string field.
DecStrings(leaf) ==
    IF leaf = None \/ leaf[1].k = "null" THEN [err |-> FALSE, val |-> <<>>]
    ELSE IF leaf[1].k = "array"
    THEN LET a == leaf[1].a
         IN  [err |-> \E i \in 1..Len(a) : DecString(Some(a[i])).err,
              val |-> [i \in 1..Len(a) |-> DecString(Some(a[i])).val]]
    ELSE [err |-> TRUE, val |-> <<>>]

\* json.Unmarshal into a struct whose only leaf is a string at path.
UnmarshalString(raw, path) ==
    LET w == Unmarshal(raw, path)
    IN  IF w.err THEN [err |-> TRUE, val |-> Empty] ELSE DecString(w.leaf)

\* json.Unmarshal into a struct whose only leaf is a []string at path.
UnmarshalStrings(raw, path) ==
    LET w == Unmarshal(raw, path)
    IN  IF w.err THEN [err |-> TRUE, val |-> <<>>] ELSE DecStrings(w.leaf)

(***************************************************************************)
(* Regular expressions: the patterns of the model are an optional (?i)     *)
(* flag followed by literal letters, or a lone "(" that does not compile.  *)
(***************************************************************************)
FoldFlag == <<"(", "?", "i", ")">>

Letters == {"x", "X", "y", "Y"}

HasFoldFlag(p) == Len(p) >= Len(FoldFlag) /\ SubSeq(p, 1, Len(FoldFlag)) = FoldFlag

\* regexp.Compile
Compile(p) ==
    LET lit == IF HasFoldFlag(p) THEN SubSeq(p, Len(FoldFlag) + 1, Len(p)) ELSE p
    IN  IF \A i \in 1..Len(lit) : lit[i] \in Letters
        THEN [err |-> FALSE, fold |-> HasFoldFlag(p), lit |-> lit]
        ELSE [err |-> TRUE, fold |-> FALSE, lit |-> Empty]

\* Regexp.MatchString: an unanchored search.
MatchString(re, s) ==
    LET t == IF re.fold THEN ToLower(s) ELSE s
        l == IF re.fold THEN ToLower(re.lit) ELSE re.lit
    IN  \E i \in 1..(Len(t) - Len(l) + 1) : SubSeq(t, i, i + Len(l) - 1) = l

(***************************************************************************)
(* github.Event accessors.                                                 *)
(***************************************************************************)
\* event.GetType(): the empty string when Type is nil.
GetType(e) == IF e.Type = None THEN Empty ELSE e.Type[1]

\* A plausible slip: an event without visibility flag counts as public.
GetPublicOrTrue(e) == IF e.Public = None THEN TRUE ELSE e.Public[1]

\* event.GetPublic(): false when Public is nil.
GetPublic(e) == IF e.Public = None THEN FALSE ELSE e.Public[1]

\* Org.GetID() and Repo.GetID(): 0 when ID is nil.
GetID(o) == IF o.ID = None THEN 0 ELSE o.ID[1]

(***************************************************************************)
(* Condition.Matches, one definition per block of the function.  A block   *)
(* either returns a value, Ret(b), or falls through to the next, Fall.     *)
(***************************************************************************)
Fall == <<>>

Ret(b) == <<b>>

\* A plausible slip: the failed comparison returns false, not c.Negate.
CheckTypeNoNegate(cond, e) ==
    IF cond.Type # Empty /\ GetType(e) # cond.Type THEN Ret(FALSE) ELSE Fall

\* if c.Type != "" && event.GetType() != c.Type
CheckType(cond, e) ==
    IF cond.Type # Empty /\ GetType(e) # cond.Type
    THEN Ret(cond.Negate)
    ELSE Fall

\* A plausible slip: the missing payload returns c.Negate, not false.
CheckPayloadActionNilNegate(cond, e) ==
    IF cond.PayloadAction # Empty
    THEN IF e.RawPayload = None THEN Ret(cond.Negate)
         ELSE LET payload == UnmarshalString(e.RawPayload[1], <<"action">>)
              IN  IF payload.err THEN Ret(FALSE)
                  ELSE IF ToLower(payload.val) # ToLower(cond.PayloadAction)
                       THEN Ret(cond.Negate)
                       ELSE Fall
    ELSE Fall

\* if c.PayloadAction != "" { ... }
CheckPayloadAction(cond, e) ==
    IF cond.PayloadAction # Empty
    THEN IF e.RawPayload = None THEN Ret(FALSE)
         ELSE LET payload == UnmarshalString(e.RawPayload[1], <<"action">>)
              IN  IF payload.err THEN Ret(FALSE)
                  ELSE IF ToLower(payload.val) # ToLower(cond.PayloadAction)
                       THEN Ret(cond.Negate)
                       ELSE Fall
    ELSE Fall

\* A plausible slip: only the first label is compared.
CheckFirstLabelOnly(cond, e) ==
    IF cond.PayloadIssueLabel # Empty
    THEN IF e.RawPayload = None THEN Ret(FALSE)
         ELSE LET payload == UnmarshalStrings(e.RawPayload[1], <<"issue", "labels">>)
                  found == /\ Len(payload.val) > 0
                           /\ ToLower(payload.val[1]) = ToLower(cond.PayloadIssueLabel)
              IN  IF payload.err THEN Ret(FALSE)
                  ELSE IF ~found THEN Ret(cond.Negate)
                       ELSE Fall
    ELSE Fall

\* if c.PayloadIssueLabel != "" { ... }
CheckPayloadIssueLabel(cond, e) ==
    IF cond.PayloadIssueLabel # Empty
    THEN IF e.RawPayload = None THEN Ret(FALSE)
         ELSE LET payload == UnmarshalStrings(e.RawPayload[1], <<"issue", "labels">>)
                  found == \E i \in 1..Len(payload.val) :
                               ToLower(payload.val[i]) = ToLower(cond.PayloadIssueLabel)
              IN  IF payload.err THEN Ret(FALSE)
                  ELSE IF ~found THEN Ret(cond.Negate)
                       ELSE Fall
    ELSE Fall

\* A plausible slip: a payload that does not decode returns c.Negate.
CheckMilestoneErrNegate(cond, e) ==
    IF cond.PayloadIssueMilestoneTitle # Empty
    THEN IF e.RawPayload = None THEN Ret(FALSE)
         ELSE LET payload == UnmarshalString(e.RawPayload[1],
                                             <<"issue", "milestone", "title">>)
              IN  IF payload.err
                     \/ ToLower(payload.val) # ToLower(cond.PayloadIssueMilestoneTitle)
                  THEN Ret(cond.Negate)
                  ELSE Fall
    ELSE Fall

\* if c.PayloadIssueMilestoneTitle != "" { ... }
CheckPayloadIssueMilestoneTitle(cond, e) ==
    IF cond.PayloadIssueMilestoneTitle # Empty
    THEN IF e.RawPayload = None THEN Ret(FALSE)
         ELSE LET payload == UnmarshalString(e.RawPayload[1],
                                             <<"issue", "milestone", "title">>)
              IN  IF payload.err THEN Ret(FALSE)
                  ELSE IF ToLower(payload.val) # ToLower(cond.PayloadIssueMilestoneTitle)
                       THEN Ret(cond.Negate)
                       ELSE Fall
    ELSE Fall

\* A plausible slip: the pattern that does not compile returns c.Negate.
CheckRegexpBadNegate(cond, e, pattern, path) ==
    IF pattern # Empty
    THEN IF e.RawPayload = None THEN Ret(FALSE)
         ELSE LET payload == UnmarshalString(e.RawPayload[1], path)
                  re == Compile(pattern)
              IN  IF payload.err THEN Ret(FALSE)
                  ELSE IF re.err THEN Ret(cond.Negate)
                       ELSE IF ~MatchString(re, payload.val) THEN Ret(cond.Negate)
                            ELSE Fall
    ELSE Fall

\* The two regexp blocks share their shape: pattern is the Condition's field,
\* path the leaf the block decodes.
CheckRegexp(cond, e, pattern, path) ==
    IF pattern # Empty
    THEN IF e.RawPayload = None THEN Ret(FALSE)
         ELSE LET payload == UnmarshalString(e.RawPayload[1], path)
                  re == Compile(pattern)
              IN  IF payload.err THEN Ret(FALSE)
                  ELSE IF re.err THEN Ret(FALSE)
                       ELSE IF ~MatchString(re, payload.val) THEN Ret(cond.Negate)
                            ELSE Fall
    ELSE Fall

\* if c.PayloadIssueTitleRegexp != "" { ... }
CheckPayloadIssueTitleRegexp(cond, e) ==
    CheckRegexp(cond, e, cond.PayloadIssueTitleRegexp, <<"issue", "title">>)

\* if c.PayloadIssueBodyRegexp != "" { ... }
CheckPayloadIssueBodyRegexp(cond, e) ==
    CheckRegexp(cond, e, cond.PayloadIssueBodyRegexp, <<"issue", "body">>)

\* A plausible slip: the visibility is compared whatever ComparePublic is.
CheckPublicAlways(cond, e) ==
    IF GetPublic(e) # cond.Public THEN Ret(cond.Negate) ELSE Fall

\* if c.ComparePublic && event.GetPublic() != c.Public
CheckPublic(cond, e) ==
    IF cond.ComparePublic /\ GetPublic(e) # cond.Public
    THEN Ret(cond.Negate)
    ELSE Fall

\* if c.OrganizationID != 0 && (event.Org == nil || event.Org.GetID() != c.OrganizationID)
CheckOrganizationID(cond, e) ==
    IF cond.OrganizationID # 0 /\ (e.Org = None \/ GetID(e.Org[1]) # cond.OrganizationID)
    THEN Ret(cond.Negate)
    ELSE Fall

\* A plausible slip: the repository is compared even when RepositoryID is 0.
CheckRepositoryIDAlways(cond, e) ==
    IF e.Repo = None \/ GetID(e.Repo[1]) # cond.RepositoryID
    THEN Ret(cond.Negate)
    ELSE Fall

\* if c.RepositoryID != 0 && (event.Repo == nil || event.Repo.GetID() != c.RepositoryID)
CheckRepositoryID(cond, e) ==
    IF cond.RepositoryID # 0 /\ (e.Repo = None \/ GetID(e.Repo[1]) # cond.RepositoryID)
    THEN Ret(cond.Negate)
    ELSE Fall

\* The blocks in the order of the function body.
SubChecks ==
    <<"Type", "PayloadAction", "PayloadIssueLabel", "PayloadIssueMilestoneTitle",
      "PayloadIssueTitleRegexp", "PayloadIssueBodyRegexp", "Public",
      "OrganizationID", "RepositoryID">>

Block(name, cond, e) ==
    CASE name = "Type" -> CheckType(cond, e)
      [] name = "PayloadAction" -> CheckPayloadAction(cond, e)
      [] name = "PayloadIssueLabel" -> CheckPayloadIssueLabel(cond, e)
      [] name = "PayloadIssueMilestoneTitle" -> CheckPayloadIssueMilestoneTitle(cond, e)
      [] name = "PayloadIssueTitleRegexp" -> CheckPayloadIssueTitleRegexp(cond, e)
      [] name = "PayloadIssueBodyRegexp" -> CheckPayloadIssueBodyRegexp(cond, e)
      [] name = "Public" -> CheckPublic(cond, e)
      [] name = "OrganizationID" -> CheckOrganizationID(cond, e)
      [] name = "RepositoryID" -> CheckRepositoryID(cond, e)

\* The function body from block k on; the last statement is return !c.Negate.
RECURSIVE MatchesFrom(_, _, _)
MatchesFrom(k, cond, e) ==
    IF k > Len(SubChecks) THEN ~cond.Negate
    ELSE LET r == Block(SubChecks[k], cond, e)
         IN  IF r # Fall THEN r[1] ELSE MatchesFrom(k + 1, cond, e)

\* func (c *Condition) Matches(event *github.Event) bool
ConditionMatches(cond, e) == MatchesFrom(1, cond, e)

\* The loop of Filter.Matches from condition i on.
RECURSIVE FilterMatchesFrom(_, _, _)
FilterMatchesFrom(i, filter, e) ==
    IF i > Len(filter.Conditions) THEN TRUE
    ELSE IF ~ConditionMatches(filter.Conditions[i], e) THEN FALSE
         ELSE FilterMatchesFrom(i + 1, filter, e)

\* A plausible slip: the Filter matches when any of its Conditions does.
FilterMatchesAny(filter, e) ==
    \E i \in 1..Len(filter.Conditions) : ConditionMatches(filter.Conditions[i], e)

\* func (f *Filter) Matches(event *github.Event) bool
FilterMatches(filter, e) == FilterMatchesFrom(1, filter, e)

(***************************************************************************)
(* The inputs: Conditions, Events and Filters of the model.                *)
(***************************************************************************)
\* Whether the guard of block name is open, i.e. the sub-check is configured.
IsSet(name, cond) ==
    CASE name = "Type" -> cond.Type # Empty
      [] name = "PayloadAction" -> cond.PayloadAction # Empty
      [] name = "PayloadIssueLabel" -> cond.PayloadIssueLabel # Empty
      [] name = "PayloadIssueMilestoneTitle" -> cond.PayloadIssueMilestoneTitle # Empty
      [] name = "PayloadIssueTitleRegexp" -> cond.PayloadIssueTitleRegexp # Empty
      [] name = "PayloadIssueBodyRegexp" -> cond.PayloadIssueBodyRegexp # Empty
      [] name = "Public" -> cond.ComparePublic
      [] name = "OrganizationID" -> cond.OrganizationID # 0
      [] name = "RepositoryID" -> cond.RepositoryID # 0

Configured(cond) == {k \in 1..Len(SubChecks) : IsSet(SubChecks[k], cond)}

PayloadChecks ==
    {"PayloadAction", "PayloadIssueLabel", "PayloadIssueMilestoneTitle",
     "PayloadIssueTitleRegexp", "PayloadIssueBodyRegexp"}

IssueChecks == PayloadChecks \ {"PayloadAction"}

AnySet(names, cond) == \E name \in names : IsSet(name, cond)

CondStrings == {Sx, SX}

BadPattern == <<"(">>

Patterns == {Sx, FoldFlag \o Sx, BadPattern}

IDs == {1, 2}

\* The zero value of Condition.
ZeroCondition ==
    [Negate |-> FALSE, Type |-> Empty, PayloadAction |-> Empty,
     PayloadIssueLabel |-> Empty, PayloadIssueMilestoneTitle |-> Empty,
     PayloadIssueTitleRegexp |-> Empty, PayloadIssueBodyRegexp |-> Empty,
     ComparePublic |-> FALSE, Public |-> FALSE,
     OrganizationID |-> 0, RepositoryID |-> 0]

AllConditions ==
    [Negate : BOOLEAN, Type : {Empty} \cup CondStrings,
     PayloadAction : {Empty} \cup CondStrings,
     PayloadIssueLabel : {Empty} \cup CondStrings,
     PayloadIssueMilestoneTitle : {Empty} \cup CondStrings,
     PayloadIssueTitleRegexp : {Empty} \cup Patterns,
     PayloadIssueBodyRegexp : {Empty} \cup Patterns,
     ComparePublic : BOOLEAN, Public : BOOLEAN,
     OrganizationID : {0} \cup IDs, RepositoryID : {0} \cup IDs]

\* The Conditions that configure at most MaxSubChecks sub-checks.
BoundedConditions ==
    {cond \in AllConditions : Cardinality(Configured(cond)) <= MaxSubChecks}

\* Those of them that leave Public clear when ComparePublic is.
Conditions == {cond \in BoundedConditions : cond.ComparePublic \/ ~cond.Public}

\* The object with the present ones of the given <<key, optional value>> pairs.
ObjOf(pairs) ==
    JObj([key \in {p[1] : p \in {q \in pairs : q[2] # None}} |->
             (CHOOSE p \in pairs : p[1] = key)[2][1]])

SeqsUpTo(S, n) == UNION {[1..m -> S] : m \in 0..n}

TypeOpts == {None, Some(Sx), Some(SX)}

PublicOpts == {None, Some(TRUE), Some(FALSE)}

RefOpts == {None, Some([ID |-> None])} \cup {Some([ID |-> Some(id)]) : id \in IDs}

ActionOpts == {None, Some(JNum), Some(JStr(Sx)), Some(JStr(SX)), Some(JStr(Sy))}

\* issue.labels: absent, not an array, an array of up to MaxLabels strings, or
\* an array with an element that is not a string.
LabelsOpts ==
    {None, Some(JNum), Some(JArr(<<JNum>>)),
     Some(JArr(<<JStr(SX), JNum>>)), Some(JArr(<<JNum, JStr(SX)>>))}
        \cup {Some(JArr(a)) : a \in SeqsUpTo({JStr(SX), JStr(Sy)}, MaxLabels)}

MilestoneOpts ==
    {None, Some(JNull), Some(JNum), Some(ObjOf({})),
     Some(ObjOf({<<"title", Some(JNum)>>})),
     Some(ObjOf({<<"title", Some(JStr(Sx))>>})),
     Some(ObjOf({<<"Title", Some(JStr(SX))>>})),
     Some(ObjOf({<<"title", Some(JStr(Sy))>>}))}

TextOpts == {None, Some(JNum), Some(JStr(Syx)), Some(JStr(SX))}

\* The raw payloads that populate only what the configured sub-checks of cond
\* decode: nil, undecodable bytes, a non-object document, or an object.
PayloadsFor(cond) ==
    IF ~AnySet(PayloadChecks, cond) THEN {None}
    ELSE {None, Some(Malformed), Some(JNull), Some(JNum)} \cup
         {Some(ObjOf({<<"action", a>>, <<"issue", i>>})) :
            a \in IF IsSet("PayloadAction", cond) THEN ActionOpts ELSE {None},
            i \in IF ~AnySet(IssueChecks, cond) THEN {None}
                  ELSE {None, Some(JNull), Some(JNum)} \cup
                       {Some(ObjOf({<<"labels", l>>, <<"milestone", m>>,
                                    <<"title", t>>, <<"body", b>>})) :
                          l \in IF IsSet("PayloadIssueLabel", cond)
                                THEN LabelsOpts ELSE {None},
                          m \in IF IsSet("PayloadIssueMilestoneTitle", cond)
                                THEN MilestoneOpts ELSE {None},
                          t \in IF IsSet("PayloadIssueTitleRegexp", cond)
                                THEN TextOpts ELSE {None},
                          b \in IF IsSet("PayloadIssueBodyRegexp", cond)
                                THEN TextOpts ELSE {None}}}

\* The events that populate only the fields the configured sub-checks of cond
\* read; every other field is nil.
EventsFor(cond) ==
    [Type : IF IsSet("Type", cond) THEN TypeOpts ELSE {None},
     RawPayload : PayloadsFor(cond),
     Public : IF IsSet("Public", cond) THEN PublicOpts ELSE {None},
     Org : IF IsSet("OrganizationID", cond) THEN RefOpts ELSE {None},
     Repo : IF IsSet("RepositoryID", cond) THEN RefOpts ELSE {None}]

\* A payload in which every sub-check finds its value.
FullPayload(action, labels, text) ==
    ObjOf({<<"action", Some(JStr(action))>>,
           <<"issue", Some(ObjOf({<<"labels", Some(JArr(labels))>>,
                                  <<"milestone", Some(ObjOf({<<"title", Some(JStr(action))>>}))>>,
                                  <<"title", Some(JStr(text))>>,
                                  <<"body", Some(JStr(text))>>}))>>})

\* A few payloads of every kind: nil, undecodable, not an object, empty, and
\* full ones on which the sub-checks pass or fail.
FewPayloads ==
    {None, Some(Malformed), Some(JNum), Some(ObjOf({})),
     Some(FullPayload(SX, <<JStr(Sy), JStr(SX)>>, Syx)),
     Some(FullPayload(Sy, <<JStr(Sy)>>, SX))}

\* The events that populate the fields the configured sub-checks of cond read,
\* with one of FewPayloads when a sub-check reads the payload.
FewEventsFor(cond) ==
    [Type : IF IsSet("Type", cond) THEN TypeOpts ELSE {None},
     RawPayload : IF AnySet(PayloadChecks, cond) THEN FewPayloads ELSE {None},
     Public : IF IsSet("Public", cond) THEN PublicOpts ELSE {None},
     Org : IF IsSet("OrganizationID", cond) THEN RefOpts ELSE {None},
     Repo : IF IsSet("RepositoryID", cond) THEN RefOpts ELSE {None}]

\* The Conditions the Filters of the model are built from.
FilterConditions ==
    {ZeroCondition,
     [ZeroCondition EXCEPT !.ComparePublic = TRUE],
     [ZeroCondition EXCEPT !.Type = Sx],
     [ZeroCondition EXCEPT !.Type = Sx, !.Negate = TRUE],
     [ZeroCondition EXCEPT !.OrganizationID = 1]}

Filters == {[Conditions |-> cs] : cs \in SeqsUpTo(FilterConditions, MaxConds)}

FilterEvents ==
    [Type : TypeOpts, RawPayload : {None}, Public : PublicOpts,
     Org : {None} \cup {Some([ID |-> Some(id)]) : id \in IDs}, Repo : {None}]

(***************************************************************************)
(* The state: a Condition c, a Filter f and an event, and what the call of  *)
(* Condition.Matches on c or of Filter.Matches on f returned (None when it *)
(* was not called).  A behaviour makes one call.  call and payloads are    *)
(* the callers that run the functions step by step, further down; here    *)
(* there are none.                                                         *)
(***************************************************************************)
Init ==
    /\ c \in Conditions
    /\ event \in EventsFor(c)
    /\ f = [Conditions |-> <<c>>]
    /\ cret = None
    /\ fret = None
    /\ call = <<>>
    /\ payloads = <<>>
    /\ sret = None

InitFilter ==
    /\ f \in Filters
    /\ c \in FilterConditions
    /\ event \in FilterEvents
    /\ cret = None
    /\ fret = None
    /\ call = <<>>
    /\ payloads = <<>>
    /\ sret = None

InitVary ==
    /\ c \in BoundedConditions
    /\ event \in FewEventsFor(c)
    /\ f = [Conditions |-> <<c>>]
    /\ cret = None
    /\ fret = None
    /\ call = <<>>
    /\ payloads = <<>>
    /\ sret = None

\* A call c.Matches(event).
CallConditionMatches ==
    /\ cret = None
    /\ fret = None
    /\ cret' = Some(ConditionMatches(c, event))
    /\ UNCHANGED <<c, f, event, fret, call, payloads, sret>>

\* A call f.Matches(event).
CallFilterMatches ==
    /\ cret = None
    /\ fret = None
    /\ fret' = Some(FilterMatches(f, event))
    /\ UNCHANGED <<c, f, event, cret, call, payloads, sret>>

Next == CallConditionMatches \/ CallFilterMatches

Spec == Init /\ [][Next]_vars

FilterSpec == InitFilter /\ [][Next]_vars

VarySpec == InitVary /\ [][Next]_vars

(***************************************************************************)
(* Vocabulary of the properties.                                           *)
(***************************************************************************)
\* The same Condition with the opposite Negate.
Flip(cond) == [cond EXCEPT !.Negate = ~cond.Negate]

ConfiguredNames(cond) == {SubChecks[k] : k \in Configured(cond)}

\* Every sub-check before the k-th is unset or passes.
Reaches(k, cond, e) == \A j \in 1..(k - 1) : Block(SubChecks[j], cond, e) = Fall

\* The path of the payload a payload-dependent sub-check reads.
Path(name) ==
    CASE name = "PayloadAction" -> <<"action">>
      [] name = "PayloadIssueLabel" -> <<"issue", "labels">>
      [] name = "PayloadIssueMilestoneTitle" -> <<"issue", "milestone", "title">>
      [] name = "PayloadIssueTitleRegexp" -> <<"issue", "title">>
      [] name = "PayloadIssueBodyRegexp" -> <<"issue", "body">>

\* The JSON value the payload of e holds at the path of sub-check name, None
\* when there is no payload, it does not parse, or the path is not there.
ValueAt(name, e) ==
    IF e.RawPayload = None THEN None
    ELSE LET w == Unmarshal(e.RawPayload[1], Path(name))
         IN  IF w.err \/ w.leaf = None \/ w.leaf[1].k = "null" THEN None ELSE w.leaf

\* The value at the path has the shape the sub-check decodes: an array of
\* strings for the labels, a string for the others.
RightShape(name, v) ==
    IF name = "PayloadIssueLabel"
    THEN v.k = "array" /\ \A i \in 1..Len(v.a) : v.a[i].k = "string"
    ELSE v.k = "string"

\* The data sub-check name requires is present in e.
DataPresent(name, e) ==
    CASE name \in PayloadChecks ->
            ValueAt(name, e) # None /\ RightShape(name, ValueAt(name, e)[1])
      [] name = "Type" -> e.Type # None
      [] name = "Public" -> e.Public # None
      [] name = "OrganizationID" -> e.Org # None
      [] name = "RepositoryID" -> e.Repo # None

\* The pattern of a regexp sub-check, Empty for the other sub-checks.
PatternOf(name, cond) ==
    CASE name = "PayloadIssueTitleRegexp" -> cond.PayloadIssueTitleRegexp
      [] name = "PayloadIssueBodyRegexp" -> cond.PayloadIssueBodyRegexp
      [] OTHER -> Empty

\* Two characters that are the same letter in either case.
SameLetter(p, q) == p = q \/ {p, q} \in {{"x", "X"}, {"y", "Y"}}

\* Two strings equal but for the case of their letters.
EqualFold(a, b) == Len(a) = Len(b) /\ \A i \in 1..Len(a) : SameLetter(a[i], b[i])

\* A Condition with every sub-check configured, and the payloads and events
\* that populate anything a sub-check may read.
EveryCheck ==
    [Negate |-> FALSE, Type |-> Sx, PayloadAction |-> Sx, PayloadIssueLabel |-> Sx,
     PayloadIssueMilestoneTitle |-> Sx, PayloadIssueTitleRegexp |-> Sx,
     PayloadIssueBodyRegexp |-> Sx, ComparePublic |-> TRUE, Public |-> TRUE,
     OrganizationID |-> 1, RepositoryID |-> 1]

AllPayloads == PayloadsFor(EveryCheck)

AllEvents ==
    [Type : TypeOpts, RawPayload : AllPayloads, Public : PublicOpts,
     Org : RefOpts, Repo : RefOpts]

(***************************************************************************)
(* Properties.                                                             *)
(***************************************************************************)

\* C1: Filter.Matches is true exactly when Condition.Matches is true for
\* every Condition of the Filter; the empty Filter matches every event.
C1_FilterIsUniversal ==
    fret # None =>
        /\ fret[1] = (\A i \in 1..Len(f.Conditions) :
                          ConditionMatches(f.Conditions[i], event))
        /\ (f.Conditions = <<>> => fret[1] = TRUE)

\* A Filter of two Conditions, the first matching and the second not, has
\* returned false.
C1_Witness ==
    /\ fret = Some(FALSE)
    /\ Len(f.Conditions) = 2
    /\ ConditionMatches(f.Conditions[1], event)
    /\ ~ConditionMatches(f.Conditions[2], event)

\* C2 as stated: a Condition with exactly one configured sub-check, on an
\* event that holds the data of that sub-check, returns with Negate set the
\* negation of what it returns with Negate clear.
C2_NegationLawAnyPattern ==
    (cret # None /\ Cardinality(Configured(c)) = 1
        /\ \A name \in ConfiguredNames(c) : DataPresent(name, event))
    => cret[1] = ~ConditionMatches(Flip(c), event)

\* C2, amended: the negation law holds when, in addition, the pattern of a
\* regexp sub-check compiles.
C2_NegationLaw ==
    (cret # None /\ Cardinality(Configured(c)) = 1
        /\ \A name \in ConfiguredNames(c) :
              DataPresent(name, event) /\ ~Compile(PatternOf(name, c)).err)
    => cret[1] = ~ConditionMatches(Flip(c), event)

\* A negated Condition with one sub-check whose comparison failed on present
\* data has returned true.
C2_Witness ==
    /\ cret = Some(TRUE)
    /\ c.Negate
    /\ Cardinality(Configured(c)) = 1
    /\ \A name \in ConfiguredNames(c) :
          DataPresent(name, event) /\ ~Compile(PatternOf(name, c)).err
    /\ ~ConditionMatches(Flip(c), event)

\* C3: a configured payload-dependent sub-check that evaluation reaches on an
\* event without raw payload makes Condition.Matches return false, whatever
\* Negate is.
C3_NoPayloadFails ==
    (cret # None /\ event.RawPayload = None
        /\ \E k \in Configured(c) :
              SubChecks[k] \in PayloadChecks /\ Reaches(k, c, event))
    => (cret[1] = FALSE /\ ConditionMatches(Flip(c), event) = FALSE)

\* A negated Condition whose type sub-check passed and whose payload
\* sub-check found no raw payload has returned false.
C3_Witness ==
    /\ cret = Some(FALSE)
    /\ c.Negate
    /\ event.RawPayload = None
    /\ IsSet("Type", c)
    /\ \E k \in Configured(c) :
          SubChecks[k] \in PayloadChecks /\ Reaches(k, c, event)

\* C4: a configured payload-dependent sub-check that evaluation reaches on a
\* payload that lacks its path, or holds a value of the wrong shape there,
\* makes Condition.Matches return false, whatever Negate is.
C4_MissingPathFailsClosed ==
    (cret # None /\ event.RawPayload # None
        /\ \E k \in Configured(c) :
              /\ SubChecks[k] \in PayloadChecks
              /\ Reaches(k, c, event)
              /\ ~DataPresent(SubChecks[k], event))
    => cret[1] = FALSE

\* C5: a non-zero OrganizationID (RepositoryID) that evaluation reaches on an
\* event without organization (repository) makes Condition.Matches return
\* false, whatever Negate is.
C5_MissingReferenceFails ==
    (cret # None
        /\ \E k \in Configured(c) :
              /\ Reaches(k, c, event)
              /\ \/ SubChecks[k] = "OrganizationID" /\ event.Org = None
                 \/ SubChecks[k] = "RepositoryID" /\ event.Repo = None)
    => cret[1] = FALSE

\* C6: a regexp sub-check with a pattern that does not compile, reached on a
\* payload that decodes, makes Condition.Matches return false, whatever
\* Negate is.
C6_BadPatternFails ==
    (cret # None /\ event.RawPayload # None
        /\ \E k \in Configured(c) :
              /\ Compile(PatternOf(SubChecks[k], c)).err
              /\ Reaches(k, c, event)
              /\ ~Unmarshal(event.RawPayload[1], Path(SubChecks[k])).err)
    => (cret[1] = FALSE /\ ConditionMatches(Flip(c), event) = FALSE)

\* A negated Condition with a pattern that does not compile has returned
\* false on a payload that holds the text the pattern is for.
C6_Witness ==
    /\ cret = Some(FALSE)
    /\ c.Negate
    /\ \E k \in Configured(c) :
          /\ Compile(PatternOf(SubChecks[k], c)).err
          /\ Reaches(k, c, event)
          /\ DataPresent(SubChecks[k], event)

\* C7: the zero Condition matches every event: the one of the state, and
\* every event of AllEvents.
C7_ZeroConditionMatchesAll ==
    (cret # None /\ c = ZeroCondition)
    => (cret[1] = TRUE /\ \A e \in AllEvents : ConditionMatches(c, e))

\* The zero Condition has returned true.
C7_Witness == c = ZeroCondition /\ cret = Some(TRUE)

\* C8: alone and not negated, the type sub-check passes exactly on the same
\* string, the payload action and milestone title sub-checks exactly on a
\* string equal but for the case of its letters.
C8_CaseSensitivity ==
    (cret # None /\ ~c.Negate /\ Cardinality(Configured(c)) = 1)
    => /\ (IsSet("Type", c) /\ DataPresent("Type", event))
              => cret[1] = (event.Type[1] = c.Type)
       /\ (IsSet("PayloadAction", c) /\ DataPresent("PayloadAction", event))
              => cret[1] = EqualFold(ValueAt("PayloadAction", event)[1].s,
                                     c.PayloadAction)
       /\ (IsSet("PayloadIssueMilestoneTitle", c)
               /\ DataPresent("PayloadIssueMilestoneTitle", event))
              => cret[1] = EqualFold(ValueAt("PayloadIssueMilestoneTitle", event)[1].s,
                                     c.PayloadIssueMilestoneTitle)

\* A payload action that differs from the configured one only in case has
\* matched.
C8_Witness ==
    /\ cret = Some(TRUE)
    /\ ~c.Negate
    /\ ConfiguredNames(c) = {"PayloadAction"}
    /\ DataPresent("PayloadAction", event)
    /\ ValueAt("PayloadAction", event)[1].s # c.PayloadAction

\* The elements of issue.labels in the payload of e, <<>> when there are none.
LabelsOf(e) ==
    LET v == ValueAt("PayloadIssueLabel", e)
    IN  IF v # None /\ v[1].k = "array" THEN v[1].a ELSE <<>>

\* Some element of issue.labels is the string label but for case.
HasLabel(e, label) ==
    \E i \in 1..Len(LabelsOf(e)) :
        LabelsOf(e)[i].k = "string" /\ EqualFold(LabelsOf(e)[i].s, label)

SamplePayloads ==
    UNION {PayloadsFor(cond) :
             cond \in {x \in AllConditions : Cardinality(Configured(x)) = 1}}

\* The events that differ from e only in fields that no configured sub-check
\* of cond reads.
Variants(cond, e) ==
    [Type : IF IsSet("Type", cond) THEN {e.Type} ELSE TypeOpts,
     RawPayload : IF AnySet(PayloadChecks, cond) THEN {e.RawPayload}
                  ELSE SamplePayloads \cup FewPayloads,
     Public : IF IsSet("Public", cond) THEN {e.Public} ELSE PublicOpts,
     Org : IF IsSet("OrganizationID", cond) THEN {e.Org} ELSE RefOpts,
     Repo : IF IsSet("RepositoryID", cond) THEN {e.Repo} ELSE RefOpts]

\* C10: Condition.Matches returns the same on every event that differs from
\* the event of the call only in fields read by unset sub-checks.
C10_UnsetSubChecksIgnored ==
    cret # None
    => \A e \in Variants(c, event) : ConditionMatches(c, e) = cret[1]

\* A Condition with only its type configured and ComparePublic clear but
\* Public set has returned, and an event with another payload, visibility,
\* organization and repository exists.
C10_Witness ==
    /\ cret # None
    /\ ConfiguredNames(c) = {"Type"}
    /\ c.Public
    /\ \E e \in Variants(c, event) :
          /\ e.RawPayload # event.RawPayload
          /\ e.Public = Some(TRUE)
          /\ e.Org # event.Org
          /\ e.Repo # event.Repo

(***************************************************************************)
(* The functions run step by step by concurrent callers.  call[p] is the   *)
(* position of caller p: the function it runs (fn), for Filter.Matches the *)
(* index i of the Condition of the loop, the block k of Condition.Matches  *)
(* it is at (0: not in Condition.Matches), whether the payload struct of   *)
(* that block is decoded, the blocks whose body it entered (seen), whether *)
(* Condition.Matches returned from its last statement (final), and what    *)
(* the call returned (ret).  payloads holds the payload struct of each     *)
(* frame.  A step reads the guards up to the next open one.                *)
(***************************************************************************)
Idle ==
    [fn |-> "idle", i |-> 0, k |-> 0, decoded |-> FALSE, seen |-> <<>>,
     final |-> FALSE, ret |-> None]

Callers == DOMAIN call

\* A plausible slip: the payload struct is one package-level variable.
FrameShared(p) == 1

\* The payload struct is a local variable: one per call.
Frame(p) == p

\* The Condition whose Matches caller p runs.
CondOf(p) ==
    IF call[p].fn = "Condition.Matches" THEN c ELSE f.Conditions[call[p].i]

\* A plausible slip: the blocks are taken from the last one.
LastOpen(cond, k) ==
    LET S == {j \in Configured(cond) : j >= k}
    IN  IF S = {} THEN Len(SubChecks) + 1 ELSE CHOOSE j \in S : \A m \in S : j >= m

\* The first block from the k-th on whose guard is open, Len(SubChecks) + 1
\* when there is none: the last statement.
NextOpen(cond, k) ==
    LET S == {j \in Configured(cond) : j >= k}
    IN  IF S = {} THEN Len(SubChecks) + 1 ELSE CHOOSE j \in S : \A m \in S : j <= m

\* json.Unmarshal(*event.RawPayload, &payload) in the block of sub-check name.
DecodeFor(name, raw) ==
    IF name = "PayloadIssueLabel"
    THEN UnmarshalStrings(raw, Path(name))
    ELSE UnmarshalString(raw, Path(name))

\* What follows json.Unmarshal in the block of sub-check name, d being the
\* payload struct and the error of the decoding.
CompareDecoded(name, cond, d) ==
    IF d.err THEN Ret(FALSE)
    ELSE CASE name = "PayloadAction" ->
                IF ToLower(d.val) # ToLower(cond.PayloadAction)
                THEN Ret(cond.Negate) ELSE Fall
           [] name = "PayloadIssueLabel" ->
                IF ~\E n \in 1..Len(d.val) :
                       ToLower(d.val[n]) = ToLower(cond.PayloadIssueLabel)
                THEN Ret(cond.Negate) ELSE Fall
           [] name = "PayloadIssueMilestoneTitle" ->
                IF ToLower(d.val) # ToLower(cond.PayloadIssueMilestoneTitle)
                THEN Ret(cond.Negate) ELSE Fall
           [] OTHER ->
                LET re == Compile(PatternOf(name, cond))
                IN  IF re.err THEN Ret(FALSE)
                    ELSE IF ~MatchString(re, d.val) THEN Ret(cond.Negate)
                         ELSE Fall

\* The position after at once Condition.Matches returns v: the call is over,
\* or Filter.Matches returns false or goes on with its loop.
Returned(at, v, isFinal) ==
    IF at.fn = "Condition.Matches"
    THEN [at EXCEPT !.ret = Some(v), !.final = isFinal, !.decoded = FALSE]
    ELSE IF ~v
         THEN [at EXCEPT !.ret = Some(FALSE), !.final = isFinal,
                         !.decoded = FALSE]
         ELSE [at EXCEPT !.i = @ + 1, !.k = 0, !.decoded = FALSE, !.seen = <<>>]

\* The position after at once block j falls through.
FellThrough(at, j) == [at EXCEPT !.k = j + 1, !.decoded = FALSE]

\* Caller p calls c.Matches(event).
StartCondition(p) ==
    /\ call[p].fn = "idle"
    /\ call' = [call EXCEPT ![p] = [Idle EXCEPT !.fn = "Condition.Matches", !.k = 1]]
    /\ UNCHANGED <<c, f, event, cret, fret, payloads, sret>>

\* Caller p calls f.Matches(event).
StartFilter(p) ==
    /\ call[p].fn = "idle"
    /\ call' = [call EXCEPT ![p] = [Idle EXCEPT !.fn = "Filter.Matches", !.i = 1]]
    /\ UNCHANGED <<c, f, event, cret, fret, payloads, sret>>

\* for _, condition := range f.Conditions: the next Condition, or return true.
FilterLoop(p) ==
    /\ call[p].fn = "Filter.Matches" /\ call[p].k = 0 /\ call[p].ret = None
    /\ call' = [call EXCEPT ![p] =
                  IF call[p].i > Len(f.Conditions)
                  THEN [call[p] EXCEPT !.ret = Some(TRUE)]
                  ELSE [call[p] EXCEPT !.k = 1]]
    /\ UNCHANGED <<c, f, event, cret, fret, payloads, sret>>

\* The next open guard is of a payload block: return false without payload,
\* else decode the payload into the payload struct of the frame.
Decode(p) ==
    /\ call[p].k >= 1 /\ call[p].ret = None /\ ~call[p].decoded
    /\ LET j == NextOpen(CondOf(p), call[p].k)
       IN  /\ j <= Len(SubChecks) /\ SubChecks[j] \in PayloadChecks
           /\ IF event.RawPayload = None
              THEN /\ call' = [call EXCEPT ![p] =
                                 Returned([call[p] EXCEPT !.seen = Append(@, j)],
                                          FALSE, FALSE)]
                   /\ UNCHANGED payloads
              ELSE /\ call' = [call EXCEPT ![p] =
                                 [call[p] EXCEPT !.k = j, !.decoded = TRUE,
                                                 !.seen = Append(@, j)]]
                   /\ payloads' = [payloads EXCEPT ![Frame(p)] =
                                     Some(DecodeFor(SubChecks[j], event.RawPayload[1]))]
    /\ UNCHANGED <<c, f, event, cret, fret, sret>>

\* The rest of a payload block, on the payload struct of the frame.
Compare(p) ==
    /\ call[p].k >= 1 /\ call[p].ret = None /\ call[p].decoded
    /\ LET r == CompareDecoded(SubChecks[call[p].k], CondOf(p), payloads[Frame(p)][1])
       IN  call' = [call EXCEPT ![p] =
                      IF r = Fall THEN FellThrough(call[p], call[p].k)
                      ELSE Returned(call[p], r[1], FALSE)]
    /\ UNCHANGED <<c, f, event, cret, fret, payloads, sret>>

\* The next open guard is of the type, visibility, organization or repository
\* block.
Check(p) ==
    /\ call[p].k >= 1 /\ call[p].ret = None /\ ~call[p].decoded
    /\ LET j == NextOpen(CondOf(p), call[p].k)
       IN  /\ j <= Len(SubChecks) /\ SubChecks[j] \notin PayloadChecks
           /\ LET r == Block(SubChecks[j], CondOf(p), event)
                  at == [call[p] EXCEPT !.seen = Append(@, j)]
              IN  call' = [call EXCEPT ![p] =
                             IF r = Fall THEN FellThrough(at, j)
                             ELSE Returned(at, r[1], FALSE)]
    /\ UNCHANGED <<c, f, event, cret, fret, payloads, sret>>

\* No guard is left: return !c.Negate.
ReturnNotNegate(p) ==
    /\ call[p].k >= 1 /\ call[p].ret = None /\ ~call[p].decoded
    /\ NextOpen(CondOf(p), call[p].k) > Len(SubChecks)
    /\ call' = [call EXCEPT ![p] = Returned(call[p], ~CondOf(p).Negate, TRUE)]
    /\ UNCHANGED <<c, f, event, cret, fret, payloads, sret>>

StepNext ==
    \/ \E p \in Callers : StartCondition(p)
    \/ \E p \in Callers : StartFilter(p)
    \/ \E p \in Callers : FilterLoop(p)
    \/ \E p \in Callers : Decode(p)
    \/ \E p \in Callers : Compare(p)
    \/ \E p \in Callers : Check(p)
    \/ \E p \in Callers : ReturnNotNegate(p)

\* The Conditions of the concurrent callers: the payload blocks of each
\* decode into structs of one type.
ConcConditions ==
    {[ZeroCondition EXCEPT !.Type = Sx],
     [ZeroCondition EXCEPT !.PayloadAction = SX, !.PayloadIssueTitleRegexp = Sx,
                           !.Negate = TRUE],
     [ZeroCondition EXCEPT !.PayloadIssueMilestoneTitle = Sx,
                           !.PayloadIssueBodyRegexp = BadPattern],
     [ZeroCondition EXCEPT !.PayloadIssueLabel = Sx, !.ComparePublic = TRUE,
                           !.Public = TRUE],
     [ZeroCondition EXCEPT !.PayloadAction = Sx, !.OrganizationID = 1,
                           !.Negate = TRUE]}

\* One caller, on the Conditions and events of InitVary.
InitStep ==
    /\ c \in BoundedConditions
    /\ event \in FewEventsFor(c)
    /\ f = [Conditions |-> <<c>>]
    /\ cret = None
    /\ fret = None
    /\ call = [p \in {1} |-> Idle]
    /\ payloads = [p \in {1} |-> None]
    /\ sret = None

\* MaxCallers callers on one Condition, Filter and event.
InitConc ==
    /\ c \in ConcConditions
    /\ event \in EventsFor(c)
    /\ f \in {[Conditions |-> <<c>>], [Conditions |-> <<Flip(c), c>>]}
    /\ cret = None
    /\ fret = None
    /\ call = [p \in 1..MaxCallers |-> Idle]
    /\ payloads = [p \in 1..MaxCallers |-> None]
    /\ sret = None

StepSpec == InitStep /\ [][StepNext]_vars

ConcSpec == InitConc /\ [][StepNext]_vars

\* What a finished call of caller p returns when it runs alone.
Alone(p) ==
    IF call[p].fn = "Condition.Matches"
    THEN ConditionMatches(c, event)
    ELSE FilterMatches(f, event)

\* C11: Condition.Matches and Filter.Matches are pure and safe under
\* concurrency: in every interleaving of the calls on one Condition, Filter
\* and event no step changes the Condition, the Filter or the event, and
\* each call returns the value it returns when run alone.
C11_PureUnderConcurrency ==
    /\ [](\A p \in Callers : call[p].ret # None => call[p].ret[1] = Alone(p))
    /\ [][c' = c /\ f' = f /\ event' = event]_vars

\* One call is over, having entered a block, while another call holds a
\* payload struct that differs from the one the first call decoded last.
C11_Witness ==
    \E p, q \in Callers :
        /\ p # q
        /\ call[p].ret # None /\ call[p].seen # <<>>
        /\ call[q].ret = None /\ call[q].decoded
        /\ payloads[Frame(p)] # None
        /\ payloads[Frame(p)] # payloads[Frame(q)]

(***************************************************************************)
(* Condition.String: the description of a Condition.  Its result is a      *)
(* string of the model checker, built from the characters of the           *)
(* configured values.                                                      *)
(***************************************************************************)
RECURSIVE Text(_)
\* The characters of s as one string.
Text(s) == IF s = <<>> THEN "" ELSE s[1] \o Text(Tail(s))

\* One character inside a quoted string: a double quote is escaped.
Escape(ch) == IF ch = "\"" THEN "\\\"" ELSE ch

\* The value s in double quotes, as the verb %q prints it.
Quote(s) == "\"" \o Text([n \in 1..Len(s) |-> Escape(s[n])]) \o "\""

RECURSIVE Itoa(_)
\* The decimal digits of n >= 0, as the verb %d prints it.
Itoa(n) ==
    IF n < 10 THEN SubSeq("0123456789", n + 1, n + 1)
    ELSE Itoa(n \div 10) \o SubSeq("0123456789", (n % 10) + 1, (n % 10) + 1)

\* A plausible slip: the clause is worded the same with and without Negate.
ClauseNoNegate(name, cond) ==
    CASE name = "Type" -> "type is " \o Quote(cond.Type)
      [] name = "PayloadAction" -> "payload action is " \o Quote(cond.PayloadAction)
      [] name = "PayloadIssueLabel" ->
            "payload issue label contains " \o Quote(cond.PayloadIssueLabel)
      [] name = "PayloadIssueMilestoneTitle" ->
            "payload issue milestone title is "
                \o Quote(cond.PayloadIssueMilestoneTitle)
      [] name = "PayloadIssueTitleRegexp" ->
            "payload issue title matches regexp "
                \o Quote(cond.PayloadIssueTitleRegexp)
      [] name = "PayloadIssueBodyRegexp" ->
            "payload issue body matches regexp "
                \o Quote(cond.PayloadIssueBodyRegexp)
      [] name = "Public" ->
            "event is" \o (IF cond.Public THEN "" ELSE " not") \o " public"
      [] name = "OrganizationID" -> "organization ID is " \o Itoa(cond.OrganizationID)
      [] name = "RepositoryID" -> "repository ID is " \o Itoa(cond.RepositoryID)

\* The clause of one configured sub-check: " not" follows "is", and "does
\* not" replaces the verb, when Negate is set; the visibility clause gets
\* one more " not" when Public is false.
Clause(name, cond) ==
    LET not == IF cond.Negate THEN " not" ELSE ""
        contains == IF cond.Negate THEN "does not contain" ELSE "contains"
        matches == IF cond.Negate THEN "does not match" ELSE "matches"
    IN  CASE name = "Type" -> "type is" \o not \o " " \o Quote(cond.Type)
          [] name = "PayloadAction" ->
                "payload action is" \o not \o " " \o Quote(cond.PayloadAction)
          [] name = "PayloadIssueLabel" ->
                "payload issue label " \o contains \o " "
                    \o Quote(cond.PayloadIssueLabel)
          [] name = "PayloadIssueMilestoneTitle" ->
                "payload issue milestone title is" \o not \o " "
                    \o Quote(cond.PayloadIssueMilestoneTitle)
          [] name = "PayloadIssueTitleRegexp" ->
                "payload issue title " \o matches \o " regexp "
                    \o Quote(cond.PayloadIssueTitleRegexp)
          [] name = "PayloadIssueBodyRegexp" ->
                "payload issue body " \o matches \o " regexp "
                    \o Quote(cond.PayloadIssueBodyRegexp)
          [] name = "Public" ->
                "event is" \o not \o (IF cond.Public THEN "" ELSE " not")
                    \o " public"
          [] name = "OrganizationID" ->
                "organization ID is" \o not \o " " \o Itoa(cond.OrganizationID)
          [] name = "RepositoryID" ->
                "repository ID is" \o not \o " " \o Itoa(cond.RepositoryID)

RECURSIVE Join(_, _)
\* strings.Join(parts, sep).
Join(parts, sep) ==
    IF parts = <<>> THEN ""
    ELSE IF Len(parts) = 1 THEN parts[1]
         ELSE parts[1] \o sep \o Join(Tail(parts), sep)

RECURSIVE ClausesFrom(_, _)
\* The clauses of the configured sub-checks from the k-th on, in the order
\* of the blocks of Condition.Matches.
ClausesFrom(k, cond) ==
    IF k > Len(SubChecks) THEN <<>>
    ELSE (IF IsSet(SubChecks[k], cond) THEN <<Clause(SubChecks[k], cond)>> ELSE <<>>)
            \o ClausesFrom(k + 1, cond)

\* c.String().
String(cond) == "If " \o Join(ClausesFrom(1, cond), " AND ")

\* A string with a quote and a double quote, as in the regexps of the tests.
Sq == <<"x", "'", "\"">>

\* The Conditions that are described: at least one and at most MaxSubChecks
\* sub-checks are configured.
StringConditions ==
    {cond \in [Type : {Empty, Sx}, PayloadAction : {Empty, SX},
               PayloadIssueLabel : {Empty, Sq},
               PayloadIssueMilestoneTitle : {Empty, Sx},
               PayloadIssueTitleRegexp : {Empty, Sq, BadPattern},
               PayloadIssueBodyRegexp : {Empty, Sx},
               ComparePublic : BOOLEAN, Public : BOOLEAN,
               OrganizationID : {0, 1}, RepositoryID : {0, 12},
               Negate : BOOLEAN] :
        /\ Cardinality(Configured(cond)) \in 1..MaxSubChecks
        /\ ~cond.ComparePublic => ~cond.Public}

\* A Condition to describe; nothing is evaluated.
InitString ==
    /\ c \in StringConditions
    /\ event \in EventsFor(ZeroCondition)
    /\ f = [Conditions |-> <<c>>]
    /\ cret = None
    /\ fret = None
    /\ call = <<>>
    /\ payloads = <<>>
    /\ sret = None

\* A call c.String().
CallString ==
    /\ sret = None
    /\ sret' = Some(String(c))
    /\ UNCHANGED <<c, f, event, cret, fret, call, payloads>>

StringNext == CallString

StringSpec == InitString /\ [][StringNext]_vars

\* The first place of sep in s, 0 when there is none.
IndexOf(s, sep) ==
    LET at == {n \in 1..(Len(s) - Len(sep) + 1) :
                  SubSeq(s, n, n + Len(sep) - 1) = sep}
    IN  IF at = {} THEN 0 ELSE CHOOSE n \in at : \A m \in at : n <= m

RECURSIVE Split(_, _)
\* The parts of s between the occurrences of sep.
Split(s, sep) ==
    LET n == IndexOf(s, sep)
    IN  IF n = 0 THEN <<s>>
        ELSE <<SubSeq(s, 1, n - 1)>>
                \o Split(SubSeq(s, n + Len(sep), Len(s)), sep)

\* The place in the order of evaluation of the k-th sub-check configured in
\* cond.
NthIndex(k, cond) ==
    CHOOSE j \in Configured(cond) :
        Cardinality({m \in Configured(cond) : m < j}) = k - 1

\* The k-th sub-check configured in cond, in the order of evaluation.
NthConfigured(k, cond) == SubChecks[NthIndex(k, cond)]

\* What the descriptions of the tests call each sub-check.
Subject(name) ==
    CASE name = "Type" -> "type"
      [] name = "PayloadAction" -> "payload action"
      [] name = "PayloadIssueLabel" -> "payload issue label"
      [] name = "PayloadIssueMilestoneTitle" -> "payload issue milestone title"
      [] name = "PayloadIssueTitleRegexp" -> "payload issue title"
      [] name = "PayloadIssueBodyRegexp" -> "payload issue body"
      [] name = "Public" -> "event"
      [] name = "OrganizationID" -> "organization ID"
      [] name = "RepositoryID" -> "repository ID"

\* The plain and the negated wording of each sub-check.
Wording(name, negated) ==
    CASE name = "PayloadIssueLabel" ->
            IF negated THEN "does not contain" ELSE "contains"
      [] name \in {"PayloadIssueTitleRegexp", "PayloadIssueBodyRegexp"} ->
            IF negated THEN "does not match regexp" ELSE "matches regexp"
      [] OTHER -> IF negated THEN "is not" ELSE "is"

\* The configured values as the descriptions show them.
Shown(name, cond) ==
    LET quoted(v) == CASE v = Sx -> "\"x\""
                       [] v = SX -> "\"X\""
                       [] v = Sq -> "\"x'\\\"\""
                       [] v = BadPattern -> "\"(\""
    IN  CASE name = "Type" -> quoted(cond.Type)
          [] name = "PayloadAction" -> quoted(cond.PayloadAction)
          [] name = "PayloadIssueLabel" -> quoted(cond.PayloadIssueLabel)
          [] name = "PayloadIssueMilestoneTitle" ->
                quoted(cond.PayloadIssueMilestoneTitle)
          [] name = "PayloadIssueTitleRegexp" -> quoted(cond.PayloadIssueTitleRegexp)
          [] name = "PayloadIssueBodyRegexp" -> quoted(cond.PayloadIssueBodyRegexp)
          [] name = "Public" -> IF cond.Public THEN "public" ELSE "not public"
          [] name = "OrganizationID" -> IF cond.OrganizationID = 1 THEN "1" ELSE "12"
          [] name = "RepositoryID" -> IF cond.RepositoryID = 1 THEN "1" ELSE "12"

\* C12: Condition.String renders, after one leading "If ", one clause per
\* configured sub-check in the order of evaluation, the clauses joined by
\* " AND "; each clause is the subject, then the wording, negated ("is not",
\* "does not contain", "does not match regexp") exactly when Negate is set,
\* then the value; with ComparePublic set, Public false and Negate set alone
\* the result is "If event is not not public".
C12_StringRendering ==
    sret # None =>
        LET s == sret[1]
            clauses == Split(SubSeq(s, 4, Len(s)), " AND ")
        IN  /\ SubSeq(s, 1, 3) = "If "
            /\ Len(clauses) = Cardinality(Configured(c))
            /\ \A k \in 1..Len(clauses) :
                  LET name == NthConfigured(k, c)
                  IN  clauses[k] = Subject(name) \o " " \o Wording(name, c.Negate)
                                      \o " " \o Shown(name, c)
            /\ (ConfiguredNames(c) = {"Public"} /\ ~c.Public /\ c.Negate)
                  => s = "If event is not not public"

\* A negated Condition with two sub-checks, one of them a value with a double
\* quote, is rendered.
C12_Witness ==
    /\ sret # None
    /\ c.Negate
    /\ Cardinality(Configured(c)) = 2
    /\ Sq \in {c.PayloadIssueLabel, c.PayloadIssueTitleRegexp}
    /\ IndexOf(sret[1], " AND ") > 0

\* The text is found by the pattern: the patterns of the model search for
\* the letter x, in either case after the flag (?i), and "(" is no pattern.
Found(pattern, text) ==
    CASE pattern = Sx -> \E n \in 1..Len(text) : text[n] = "x"
      [] pattern = FoldFlag \o Sx -> \E n \in 1..Len(text) : text[n] \in {"x", "X"}
      [] OTHER -> FALSE

\* Sub-check name of cond passes on e: its data is there and compares as
\* configured; an event without visibility flag counts as not public.
Passes(name, cond, e) ==
    CASE name = "Type" -> e.Type # None /\ e.Type[1] = cond.Type
      [] name = "PayloadAction" ->
            /\ DataPresent(name, e)
            /\ EqualFold(ValueAt(name, e)[1].s, cond.PayloadAction)
      [] name = "PayloadIssueLabel" ->
            DataPresent(name, e) /\ HasLabel(e, cond.PayloadIssueLabel)
      [] name = "PayloadIssueMilestoneTitle" ->
            /\ DataPresent(name, e)
            /\ EqualFold(ValueAt(name, e)[1].s, cond.PayloadIssueMilestoneTitle)
      [] name \in {"PayloadIssueTitleRegexp", "PayloadIssueBodyRegexp"} ->
            /\ DataPresent(name, e)
            /\ Found(PatternOf(name, cond), ValueAt(name, e)[1].s)
      [] name = "Public" -> (e.Public = Some(TRUE)) = cond.Public
      [] name = "OrganizationID" ->
            e.Org # None /\ e.Org[1].ID = Some(cond.OrganizationID)
      [] name = "RepositoryID" ->
            e.Repo # None /\ e.Repo[1].ID = Some(cond.RepositoryID)

\* A value of the payload that does not decode into the field of sub-check
\* name.
WrongType(name, v) ==
    IF name = "PayloadIssueLabel"
    THEN v.k # "array" \/ \E n \in 1..Len(v.a) : v.a[n].k \notin {"string", "null"}
    ELSE v.k # "string"

\* Sub-check name of cond ends in a hard failure on e: there is no raw
\* payload, the payload does not decode, or the pattern is no regexp.
HardFailure(name, cond, e) ==
    /\ name \in PayloadChecks
    /\ \/ e.RawPayload = None
       \/ LET w == Unmarshal(e.RawPayload[1], Path(name))
          IN  w.err \/ (w.leaf # None /\ w.leaf[1].k # "null"
                           /\ WrongType(name, w.leaf[1]))
       \/ PatternOf(name, cond) \notin {Empty, Sx, FoldFlag \o Sx}

\* The configured sub-checks of cond that do not pass on e.
NotPassing(cond, e) == {j \in Configured(cond) : ~Passes(SubChecks[j], cond, e)}

\* The first of a non-empty set of places.
First(S) == CHOOSE j \in S : \A m \in S : j <= m

\* The calls of Condition.Matches that are over.
Over == {p \in Callers : call[p].fn = "Condition.Matches" /\ call[p].ret # None}

\* The sub-checks are entered in the fixed order, none skipped and none
\* after the first that does not pass, and a first sub-check that fails by
\* comparison on present data returns Negate.
FirstFailingDecides(p) ==
    LET seen == call[p].seen
        np == NotPassing(c, event)
    IN  /\ \A n \in 1..Len(seen) : seen[n] = NthIndex(n, c)
        /\ np = {} => Len(seen) = Cardinality(Configured(c))
        /\ np # {} =>
              /\ seen # <<>> /\ seen[Len(seen)] = First(np)
              /\ ~call[p].final
              /\ (DataPresent(SubChecks[First(np)], event)
                     /\ ~HardFailure(SubChecks[First(np)], c, event))
                 => call[p].ret[1] = c.Negate

\* C13 as stated: the sub-checks are evaluated in the fixed order and the
\* first that does not pass decides, returning Negate when it fails by
\* comparison on present data, and Condition.Matches returns !Negate only
\* when every configured sub-check passes.
C13_OnlyWhenAllPass ==
    \A p \in Over :
        /\ FirstFailingDecides(p)
        /\ call[p].ret[1] = ~c.Negate => NotPassing(c, event) = {}

\* C13: the sub-checks are evaluated in the fixed order and the first that
\* does not pass decides, returning Negate when it fails by comparison on
\* present data without entering a later sub-check; Condition.Matches
\* returns from its last statement, with !Negate, exactly when every
\* configured sub-check passes, and returns !Negate otherwise only as the
\* false of a hard failure of a negated Condition.
C13_FirstFailingDecides ==
    \A p \in Over :
        /\ FirstFailingDecides(p)
        /\ call[p].final <=> NotPassing(c, event) = {}
        /\ call[p].final => call[p].ret[1] = ~c.Negate
        /\ (call[p].ret[1] = ~c.Negate /\ NotPassing(c, event) # {})
              => /\ c.Negate
                 /\ HardFailure(SubChecks[First(NotPassing(c, event))], c, event)

\* The first of two sub-checks failed by comparison on present data and
\* Negate was returned, the second, whose pattern is no regexp or whose data
\* is absent, not entered.
C13_Witness ==
    \E p \in Over :
        /\ Cardinality(Configured(c)) = 2
        /\ Len(call[p].seen) = 1
        /\ DataPresent(SubChecks[call[p].seen[1]], event)
        /\ call[p].ret[1] = c.Negate
        /\ c.Negate
        /\ \E j \in Configured(c) :
              /\ j > call[p].seen[1]
              /\ \/ HardFailure(SubChecks[j], c, event)
                 \/ ~DataPresent(SubChecks[j], event)

\* C14 as stated: a negated Condition with the type and the payload action
\* sub-checks, on an event whose type and payload action are both present,
\* returns true only when both comparisons fail: the type of the event
\* differs from the configured type and its action from the configured
\* action.
C14_NegatedMeansNeither ==
    (cret = Some(TRUE) /\ c.Negate
        /\ ConfiguredNames(c) = {"Type", "PayloadAction"}
        /\ DataPresent("Type", event) /\ DataPresent("PayloadAction", event))
    => /\ event.Type[1] # c.Type
       /\ ~EqualFold(ValueAt("PayloadAction", event)[1].s, c.PayloadAction)

\* The evaluation of cond on e in the fixed order ends at a hard failure
\* before any comparison failure: a configured sub-check has a hard failure
\* and every configured sub-check before it passes.
EndsAtHardFailure(cond, e) ==
    \E j \in Configured(cond) :
        /\ HardFailure(SubChecks[j], cond, e)
        /\ \A m \in Configured(cond) : m < j => Passes(SubChecks[m], cond, e)

C16_MissingFlagIsNotPublic ==
    (cret # None /\ c.ComparePublic /\ event.Public = None)
    => /\ cret[1] = ConditionMatches(c, [event EXCEPT !.Public = Some(FALSE)])
       /\ (ConfiguredNames(c) = {"Public"} /\ ~c.Public /\ ~c.Negate)
             => cret[1] = TRUE

\* A Condition for non-public events, with a second sub-check, has returned
\* true on an event without visibility flag.
C16_Witness ==
    /\ cret = Some(TRUE)
    /\ c.ComparePublic /\ ~c.Public /\ ~c.Negate
    /\ Cardinality(Configured(c)) = 2
    /\ event.Public = None

====
